---- MODULE Spec2Model ----
(***************************************************************************)
(* A model of src/pipeline.py: the Pipeline class (initialise, load_steps, *)
(* run_step / run, build_action_log, get_step_title_number, finalise,      *)
(* create_base_folder_structure) and the helpers create_folder and         *)
(* get_current_time.                                                       *)
(*                                                                         *)
(* Python values are tagged so that an int and a str are never the same    *)
(* value: PyInt(1) is the integer 1, PyStr(<<"1">>) the string "1" (a       *)
(* string is the sequence of its characters), None is None.  A dict that   *)
(* keeps insertion order is a sequence of [k, v] pairs with distinct keys. *)
(* A timestamp is the clock reading it was formatted from (isoformat is    *)
(* one-to-one on datetimes and orders like them).                          *)
(*                                                                         *)
(* What the environment is taken to do: the configuration files and the    *)
(* git repository are readable (Pipeline() succeeds); successive readings  *)
(* of the clock never decrease, and may be equal; the log directory        *)
(* exists; what a step function returns can be written as JSON; a step     *)
(* function and the dependency resolution may raise.                       *)
(***************************************************************************)
EXTENDS Integers, Sequences, FiniteSets, TLC

VARIABLES
    constructed,    \* TRUE once Pipeline.__init__ has run initialise
    kwargs,         \* self.kwargs: the parsed command line
    log_path,       \* self.log_path
    output_path,    \* self.output_path
    steps,          \* self.steps: the loaded registry, NotLoaded before load_steps
    action_logs,    \* self.action_logs: the run log
    finalised,      \* how many times finalise has written its file
    files,          \* the log files on disk: file name -> content
    folders,        \* the folders that exist in the working directory
    now,            \* the last reading of the wall clock
    returned_at,    \* the clock when the function the last call invoked (a step function,
                    \* the bootstrap) returned; the call's last reading if it invoked none
    status_active,  \* a console.status(...) indication is on screen
    invoked,        \* the invocations of step functions made by the last run_step
    ret,            \* the last call: [op, arg, kind, value]
    boot_hist,      \* the last create_base_folder_structure runs with nothing removed since
    title_in        \* arguments of the last direct get_step_title_number call

vars == <<constructed, kwargs, log_path, output_path, steps, action_logs,
          finalised, files, folders, now, returned_at, status_active, invoked, ret,
          boot_hist, title_in>>

\* ------------------------------------------------------------------ bounds
MaxClock == 1
MaxOptions == 2
MaxFinalise == 2
MaxStepNumber == 12
MaxSubstep == 12

\* ------------------------------------------------------------ Python values
PyInt(n) == [int |-> n]
PyStr(s) == [str |-> s]
None == [none |-> TRUE]
IsInt(v) == DOMAIN v = {"int"}
IsStr(v) == DOMAIN v = {"str"}

Digits == <<"0", "1", "2", "3", "4", "5", "6", "7", "8", "9">>

\* The decimal digits of a natural number, most significant first.
RECURSIVE DecimalOf(_)
DecimalOf(n) ==
    IF n < 10 THEN <<Digits[n + 1]>>
    ELSE DecimalOf(n \div 10) \o <<Digits[(n % 10) + 1]>>

\* str(v) and the "{v}" of an f-string: an int is written in decimal, a str is itself.
str(v) == IF IsInt(v) THEN PyStr(DecimalOf(v.int)) ELSE v

\* bool(v) as `if v:` takes it: None, 0 and "" are false.
Truthy(v) ==
    IF v = None THEN FALSE
    ELSE IF IsInt(v) THEN v.int # 0
    ELSE v.str # <<>>

\* ------------------------------------------------- insertion-ordered dicts
DictKeys(d) == {d[i].k : i \in DOMAIN d}
DictHas(d, key) == \E i \in DOMAIN d : d[i].k = key
DictGet(d, key) == d[CHOOSE i \in DOMAIN d : d[i].k = key].v
\* d[key] = value: an existing key keeps its place, a new key goes last.
DictSet(d, key, value) ==
    IF DictHas(d, key)
    THEN [i \in DOMAIN d |-> IF d[i].k = key THEN [k |-> key, v |-> value] ELSE d[i]]
    ELSE Append(d, [k |-> key, v |-> value])

\* ----------------------------------------------------------------- results
Ok(v) == [kind |-> "ok", value |-> v]
Raise(e) == [kind |-> "raise", value |-> e]

\* ------------------------------------------------------- get_step_title_number
get_step_title_number_swapped(step_number, substep_number) ==
    IF Truthy(substep_number)
    THEN PyStr(str(substep_number).str \o <<".">> \o str(step_number).str)
    ELSE str(step_number)

get_step_title_number(step_number, substep_number) ==
    IF Truthy(substep_number)
    THEN PyStr(str(step_number).str \o <<".">> \o str(substep_number).str)
    ELSE str(step_number)

\* ---------------------------------------------------------- folder bootstrap
BaseFolders == <<"input", "output", "tmp", "log">>
FolderSet == {BaseFolders[i] : i \in DOMAIN BaseFolders}

\* create_folder: the status it returns and the folders that exist afterwards.
create_folder_always_creates(folder_path, fs) ==
    [status |-> "folders_created", fs |-> fs \cup {folder_path}]

create_folder(folder_path, fs) ==
    IF folder_path \notin fs
    THEN [status |-> "folders_created", fs |-> fs \cup {folder_path}]
    ELSE [status |-> "folders_in_existence", fs |-> fs]

\* The loop of create_base_folder_structure over BaseFolders[i..], threading the
\* action_log built so far and the file system.
RECURSIVE BootstrapFrom(_, _, _)
BootstrapFrom(i, log, fs) ==
    IF i > Len(BaseFolders) THEN [output |-> log, fs |-> fs]
    ELSE LET r == create_folder(BaseFolders[i], fs)
         IN  BootstrapFrom(i + 1,
                 [log EXCEPT ![r.status] = Append(@, BaseFolders[i])], r.fs)

create_base_folder_structure(fs) ==
    BootstrapFrom(1,
        [folders_created |-> <<>>, folders_in_existence |-> <<>>, completed_at |-> None],
        fs)

\* ------------------------------------------------------------------- clock
\* get_current_time() returns the wall clock; a reading is never below the last one.
Clock == 0..MaxClock
Later(t) == t..MaxClock
\* The readings a call can get after reading t: any later one if it reads the
\* clock again, t itself if it does not.
Reads(t, reads) == IF reads THEN Later(t) ELSE {t}

\* ---------------------------------------------------------- step registries
\* self.steps does not exist before load_steps: the registry with no keys stands
\* for it (load_steps is never given an empty registry here).
NotLoaded == <<>>
IsLoaded(self_steps) == DOMAIN self_steps # {}
Loci == <<"chr1", "chr2", "chr3">>
OptionLists == {SubSeq(Loci, 1, k) : k \in 1..MaxOptions}

SingleStep(fn, has_progress) ==
    [function |-> fn, is_multi |-> FALSE, has_progress |-> has_progress,
     multi_param |-> "", multi_options |-> <<>>,
     title_fields |-> {"output_path"}, list_item |-> fn]

MultiStep(fn, param, options) ==
    [function |-> fn, is_multi |-> TRUE, has_progress |-> FALSE,
     multi_param |-> param, multi_options |-> options,
     title_fields |-> {"output_path"}, list_item |-> fn]

\* The registries a caller hands to load_steps: keys are the step numbers as text.
\* One step that leaves the progress indication to the runner; or a step that
\* reports its own progress followed by a fan-out step over some loci.
OneStepRegistry == PyStr(<<"1">>) :> SingleStep("f", FALSE)
FanOutRegistry(options) ==
    (PyStr(<<"1">>) :> SingleStep("f", TRUE))
        @@ (PyStr(<<"2">>) :> MultiStep("g", "locus", options))
Registries == {OneStepRegistry} \cup {FanOutRegistry(o) : o \in OptionLists}

\* What a caller passes to run_step: the step number as an int or as text, one of
\* them ("9") in no registry.
StepArgs == {PyInt(1), PyInt(2), PyStr(<<"1">>), PyStr(<<"2">>), PyStr(<<"9">>)}

\* What one invocation of a step function does: return, or raise.  What it returns
\* is opaque to the pipeline; it is written as the call that produced it.  A call
\* is [function, kwargs, outcome].
Outcomes == {"return", "raise"}
ReturnValue(call) == [returned_by |-> call]

\* ------------------------------------------------------------ build_action_log
\* An action_name given by the caller; None when it is left out.
Named(n) == [name |-> n]

\* clock is the reading get_current_time() gives while the record is built.
build_action_log_stamped_early(self_steps, step_number, substep_number, started_at, additional_args, action_output, action_name, clock) ==
    Ok([step |-> step_number, substep_number |-> substep_number,
        step_action |-> IF action_name = None THEN self_steps[step_number].function
                        ELSE action_name.name,
        started_at |-> started_at, completed_at |-> started_at,
        arguments |-> additional_args, action_output |-> action_output])

build_action_log(self_steps, step_number, substep_number, started_at, additional_args, action_output, action_name, clock) ==
    IF action_name = None /\ step_number \notin DOMAIN self_steps
    THEN Raise("KeyError")
    ELSE Ok([step |-> step_number, substep_number |-> substep_number,
             step_action |-> IF action_name = None
                             THEN self_steps[step_number].function
                             ELSE action_name.name,
             started_at |-> started_at, completed_at |-> clock,
             arguments |-> additional_args, action_output |-> action_output])

\* ------------------------------------------------------------------------ run
\* `with console.status(...)`: the indication is gone when the block is left,
\* by return or by exception.
status_left_on_raise(raised) == raised

status_after_with(raised) == FALSE

\* run(step_number, substep_number, additional_args, **kw) where the step function
\* does `outcome`, the clock reads t_start at entry and t_done when the log is built.
\* result is Ok(<<step_title_number, action_log>>) or the exception.
run(self_steps, step_number, substep_number, additional_args, kw, outcome, t_start, t_done) ==
    LET step_title_number == get_step_title_number(step_number, substep_number)
        none == [result |-> Raise("KeyError"), invoked |-> <<>>, status |-> FALSE]
    IN  IF step_number \notin DOMAIN self_steps THEN none
        ELSE IF ~(self_steps[step_number].title_fields \subseteq DOMAIN kw) THEN none
        ELSE IF str(step_number) \notin DOMAIN self_steps THEN none
        ELSE LET d == self_steps[str(step_number)]
                 call == [function |-> d.function, kwargs |-> kw, outcome |-> outcome]
                 raised == outcome = "raise"
                 status == IF ~d.has_progress THEN status_after_with(raised) ELSE FALSE
                 built == build_action_log(self_steps, step_number, substep_number,
                              t_start, additional_args, ReturnValue(call), None, t_done)
             IN  IF raised
                 THEN [result |-> Raise("StepError"), invoked |-> <<call>>,
                       status |-> status]
                 ELSE [result |-> IF built.kind = "ok"
                                  THEN Ok(<<step_title_number, built.value>>)
                                  ELSE built,
                       invoked |-> <<call>>, status |-> status]

\* ------------------------------------------------------------------- run_step
\* The fan-out loop from option i on: items collected so far, invocations so far.
RECURSIVE FanOut(_, _, _, _, _, _)
FanOut(d, kw, outcomes, i, items, calls) ==
    IF i > Len(d.multi_options)
    THEN [result |-> Ok(items), invoked |-> calls]
    ELSE LET kw_i == (d.multi_param :> d.multi_options[i]) @@ kw
             call == [function |-> d.function, kwargs |-> kw_i, outcome |-> outcomes[i]]
         IN  IF outcomes[i] = "raise"
             THEN [result |-> Raise("StepError"), invoked |-> Append(calls, call)]
             ELSE FanOut(d, kw_i, outcomes, i + 1,
                         Append(items, ReturnValue(call)), Append(calls, call))

\* How many times run_step(step_number) can invoke a step function.
Invocations(self_steps, step_number) ==
    IF ~IsLoaded(self_steps) \/ str(step_number) \notin DOMAIN self_steps THEN 0
    ELSE IF self_steps[str(step_number)].is_multi
         THEN Len(self_steps[str(step_number)].multi_options)
         ELSE 1

\* run_step(step_number) reaches run(): the step is registered and is no fan-out.
RunsOnce(self_steps, step_number) ==
    /\ Invocations(self_steps, step_number) > 0
    /\ ~self_steps[str(step_number)].is_multi

\* The kwargs run_step builds: get_kwargs() plus config, output_path and console.
StepKwargs(self_kwargs, self_output_path) ==
    [verbose |-> self_kwargs.verbose, force |-> self_kwargs.force,
     release |-> self_kwargs.release, config |-> "config",
     output_path |-> self_output_path, console |-> "console"]

\* run_step(step_number): result, self.action_logs afterwards, the invocations
\* made and whether a status indication is left on screen.
RunStepBody(self_steps, self_logs, kw, step_number, outcomes, t_start, t_done) ==
    LET fail(e) == [result |-> Raise(e), logs |-> self_logs, invoked |-> <<>>,
                    status |-> FALSE]
    IN  IF ~IsLoaded(self_steps) THEN fail("AttributeError")
        ELSE IF str(step_number) \notin DOMAIN self_steps THEN fail("KeyError")
        ELSE IF self_steps[str(step_number)].is_multi
        THEN LET r == FanOut(self_steps[str(step_number)], kw, outcomes, 1, <<>>, <<>>)
             IN  [result |-> r.result, logs |-> self_logs, invoked |-> r.invoked,
                  status |-> FALSE]
        ELSE LET r == run(self_steps, step_number, None, None, kw, outcomes[1],
                          t_start, t_done)
             IN  IF r.result.kind = "raise"
                 THEN [result |-> r.result, logs |-> self_logs, invoked |-> r.invoked,
                       status |-> r.status]
                 ELSE [result |-> Ok(<<r.result.value[2]>>),
                       logs |-> [self_logs EXCEPT !.steps =
                                    DictSet(@, r.result.value[1], r.result.value[2])],
                       invoked |-> r.invoked, status |-> r.status]

run_step_marks_unknown(self_steps, self_logs, kw, step_number, outcomes, t_start, t_done) ==
    IF IsLoaded(self_steps) /\ str(step_number) \notin DOMAIN self_steps
    THEN [result |-> Raise("KeyError"),
          logs |-> [self_logs EXCEPT !.steps = DictSet(@, str(step_number), None)],
          invoked |-> <<>>, status |-> FALSE]
    ELSE RunStepBody(self_steps, self_logs, kw, step_number, outcomes, t_start, t_done)

run_step(self_steps, self_logs, kw, step_number, outcomes, t_start, t_done) ==
    RunStepBody(self_steps, self_logs, kw, step_number, outcomes, t_start, t_done)

\* ----------------------------------------------------------------- initialise
\* get_repository_info() and get_system_info(), read once per initialise.
RepositoryName == "pipeline"
PipelineName == "Pipeline"
PipelineVersion == "commit"
SystemInfo == "system_info"

\* initialise(): the new self.action_logs, the paths and the folders afterwards;
\* t_start is the clock at entry, t_done the clock when the step-zero log is built.
initialise(self_steps, release, fs, t_start, t_done) ==
    LET boot == create_base_folder_structure(fs)
        step_title_number == get_step_title_number(PyInt(0), None)
        built == build_action_log(self_steps, PyInt(0), None, t_start, None, boot.output, Named("create_base_folder_structure"), t_done)
        fresh == [started_at |-> t_start, steps |-> <<>>,
                  repository_name |-> RepositoryName, pipeline_name |-> PipelineName,
                  pipeline_version |-> PipelineVersion, system_info |-> SystemInfo]
    IN  [output_path |-> IF release THEN "warehouse/pipeline" ELSE "output",
         log_path |-> IF release THEN "warehouse/logs/pipeline" ELSE "log",
         logs |-> [fresh EXCEPT !.steps = DictSet(@, step_title_number, built.value)],
         boot |-> boot]

\* ------------------------------------------------------------------- finalise
Dependencies == [pip |-> "requirements"]
DepOutcomes == {"ok", "raise"}

\* hashlib.sha256(...).hexdigest(): a digest stands for the text it was taken of.
Sha256(text) == [sha256 |-> text]

\* self.action_logs[key] = value on the dict of the run log.
SetItem(d, key, value) ==
    [k \in DOMAIN d \cup {key} |-> IF k = key THEN value ELSE d[k]]

\* json.dumps(..., sort_keys=True): the steps are written in key order, not in the
\* order they were inserted.
JsonDumps(logs) ==
    [k \in DOMAIN logs |->
        IF k = "steps"
        THEN [key \in DictKeys(logs.steps) |-> DictGet(logs.steps, key)]
        ELSE logs[k]]

LogFileName(self_log_path, repository_name, completed_at) ==
    [dir |-> self_log_path, repo |-> repository_name, hash |-> Sha256(completed_at)]

\* finalise(): result, self.action_logs and the files afterwards; deps is what
\* bundle_dependency_list does, clock what get_current_time() reads.
finalise_writes_first(self_logs, self_log_path, disk, deps, clock) ==
    LET stamped == SetItem(SetItem(self_logs, "dependencies", Dependencies), "completed_at", clock)
        logfilename == LogFileName(self_log_path, self_logs.repository_name, clock)
    IN  [result |-> IF deps = "raise" THEN Raise("DependencyError") ELSE Ok(stamped),
         logs |-> IF deps = "raise" THEN self_logs ELSE stamped,
         files |-> (logfilename :> JsonDumps(self_logs)) @@ disk,
         written |-> <<logfilename>>]

finalise(self_logs, self_log_path, disk, deps, clock) ==
    IF deps = "raise"
    THEN [result |-> Raise("DependencyError"), logs |-> self_logs, files |-> disk,
          written |-> <<>>]
    ELSE LET with_deps == SetItem(self_logs, "dependencies", Dependencies)
             stamped == SetItem(with_deps, "completed_at", clock)
             logfilename == LogFileName(self_log_path, stamped.repository_name, stamped.completed_at)
         IN  [result |-> Ok(stamped), logs |-> stamped,
              files |-> (logfilename :> JsonDumps(stamped)) @@ disk,
              written |-> <<logfilename>>]

\* -------------------------------------------------------------------- actions
NoCall == [op |-> "none", arg |-> None, kind |-> "none", value |-> None]
Returned(op, arg, result) ==
    [op |-> op, arg |-> arg, kind |-> result.kind, value |-> result.value]

\* The last two bootstrap runs, oldest first.
Remember(hist, entry) ==
    IF Len(hist) < 2 THEN Append(hist, entry) ELSE <<hist[2], entry>>

\* Before Pipeline() is called, in a working directory with none of the base
\* folders; the command line sets release or not (verbose and force only change
\* what is printed).
Init ==
    /\ constructed = FALSE
    /\ kwargs \in {[verbose |-> FALSE, force |-> FALSE, release |-> r] : r \in BOOLEAN}
    /\ log_path = None
    /\ output_path = None
    /\ steps = NotLoaded
    /\ action_logs = None
    /\ finalised = 0
    /\ files = <<>>
    /\ folders = {}
    /\ now = 0
    /\ returned_at = 0
    /\ status_active = FALSE
    /\ invoked = <<>>
    /\ ret = NoCall
    /\ boot_hist = <<>>
    /\ title_in = <<>>

\* Pipeline(): __init__ reads the configuration and the command line and calls
\* initialise, once per object.
Initialise ==
    /\ ~constructed
    /\ \E t_start \in Later(now) : \E t_ret \in Later(t_start) : \E t_done \in Later(t_ret) :
        /\ \E r \in {initialise(steps, kwargs.release, folders, t_start, t_done)} :
               /\ action_logs' = r.logs
               /\ log_path' = r.log_path
               /\ output_path' = r.output_path
               /\ folders' = r.boot.fs
               /\ boot_hist' = Remember(boot_hist,
                     [before |-> folders, output |-> r.boot.output, after |-> r.boot.fs])
        /\ now' = t_done
        /\ returned_at' = t_ret
    /\ constructed' = TRUE
    /\ finalised' = 0
    /\ invoked' = <<>>
    /\ ret' = Returned("initialise", None, Ok(None))
    /\ UNCHANGED <<kwargs, steps, files, status_active, title_in>>

LoadSteps ==
    /\ constructed
    /\ \E registry \in Registries :
        steps' = registry
    /\ invoked' = <<>>
    /\ ret' = Returned("load_steps", None, Ok(None))
    /\ returned_at' = now
    /\ UNCHANGED <<constructed, kwargs, log_path, output_path, action_logs,
                   finalised, files, folders, now, status_active, boot_hist, title_in>>

RunStep ==
    /\ constructed
    /\ \E step_number \in StepArgs :
       \E outcomes \in [1..Invocations(steps, step_number) -> Outcomes] :
       \E t_start \in Reads(now, RunsOnce(steps, step_number)) :
       \E t_ret \in Reads(t_start, RunsOnce(steps, step_number) /\ outcomes[1] # "raise") :
       \E t_done \in Reads(t_ret, RunsOnce(steps, step_number) /\ outcomes[1] # "raise") :
       \E r \in {run_step(steps, action_logs, StepKwargs(kwargs, output_path), step_number, outcomes, t_start, t_done)} :
        LET built == r.result.kind = "ok" /\ RunsOnce(steps, step_number)
        IN  /\ action_logs' = r.logs
            /\ status_active' = r.status
            /\ invoked' = r.invoked
            /\ ret' = Returned("run_step", step_number, r.result)
            /\ now' = IF built THEN t_done ELSE t_start
            /\ returned_at' = IF built THEN t_ret ELSE t_start
    /\ UNCHANGED <<constructed, kwargs, log_path, output_path, steps,
                   finalised, files, folders, boot_hist, title_in>>

Finalise ==
    /\ constructed
    /\ finalised < MaxFinalise
    /\ \E deps \in DepOutcomes :
       \E clock \in Reads(now, deps = "ok") :
       \E r \in {finalise(action_logs, log_path, files, deps, clock)} :
            /\ action_logs' = r.logs
            /\ files' = r.files
            /\ finalised' = finalised + Len(r.written)
            /\ ret' = Returned("finalise", None, r.result)
            /\ now' = clock
            /\ returned_at' = clock
    /\ invoked' = <<>>
    /\ UNCHANGED <<constructed, kwargs, log_path, output_path, steps, folders,
                   status_active, boot_hist, title_in>>

Next == Initialise \/ LoadSteps \/ RunStep \/ Finalise

Spec == Init /\ [][Next]_vars

\* ------------------------------------------------ the bootstrap, called directly
\* create_base_folder_structure() on the constructed object.
CreateBaseFolderStructure ==
    /\ constructed
    /\ \E r \in {create_base_folder_structure(folders)} :
        /\ folders' = r.fs
        /\ ret' = Returned("create_base_folder_structure", None, Ok(r.output))
        /\ boot_hist' = Remember(boot_hist,
              [before |-> folders, output |-> r.output, after |-> r.fs])
    /\ invoked' = <<>>
    /\ returned_at' = now
    /\ UNCHANGED <<constructed, kwargs, log_path, output_path, steps, action_logs,
                   finalised, files, now, status_active, title_in>>

\* Something outside the pipeline removes one of the folders.
RemoveFolder ==
    /\ \E f \in folders : folders' = folders \ {f}
    /\ boot_hist' = <<>>
    /\ UNCHANGED <<constructed, kwargs, log_path, output_path, steps, action_logs,
                   finalised, files, now, returned_at, status_active, invoked, ret,
                   title_in>>

\* The working directory holds any of the base folders when the pipeline starts.
InitBoot ==
    /\ constructed = FALSE
    /\ kwargs \in {[verbose |-> FALSE, force |-> FALSE, release |-> r] : r \in BOOLEAN}
    /\ log_path = None
    /\ output_path = None
    /\ steps = NotLoaded
    /\ action_logs = None
    /\ finalised = 0
    /\ files = <<>>
    /\ folders \in SUBSET FolderSet
    /\ now = 0
    /\ returned_at = 0
    /\ status_active = FALSE
    /\ invoked = <<>>
    /\ ret = NoCall
    /\ boot_hist = <<>>
    /\ title_in = <<>>

NextBoot == Initialise \/ CreateBaseFolderStructure \/ RemoveFolder

SpecBoot == InitBoot /\ [][NextBoot]_vars

\* ------------------------------------ get_step_title_number, called directly
\* The method reads nothing of the object: its result is a function of its arguments.
StepNumbers == {PyInt(n) : n \in 0..MaxStepNumber}
SubstepNumbers == {None} \cup {PyInt(s) : s \in 0..MaxSubstep}

GetStepTitleNumber ==
    /\ \E step_number \in StepNumbers : \E substep_number \in SubstepNumbers :
        /\ title_in' = <<step_number, substep_number>>
        /\ ret' = Returned("get_step_title_number", None,
                      Ok(get_step_title_number(step_number, substep_number)))
    /\ UNCHANGED <<constructed, kwargs, log_path, output_path, steps, action_logs,
                   finalised, files, folders, now, returned_at, status_active, invoked,
                   boot_hist>>

NextTitle == GetStepTitleNumber

SpecTitle == Init /\ [][NextTitle]_vars

\* --------------------------------------------------------------- properties
ActionLogFields ==
    {"step", "substep_number", "step_action", "started_at", "completed_at",
     "arguments", "action_output"}
IsActionLog(x) == DOMAIN x = ActionLogFields

\* The last call was run_step and reached a registered step.
RanRegistered == ret.op = "run_step" /\ str(ret.arg) \in DOMAIN steps
\* Some step function invoked by the last run_step raised.
StepRaised == \E i \in DOMAIN invoked : invoked[i].outcome = "raise"

\* C1: with the registry {"1": f, no fan-out, no own progress}, run_step("1") after
\* initialise and load_steps invokes f once and, f returning, returns exactly one
\* ActionLog with step the integer 1, substep_number and arguments null,
\* step_action f's name and action_output what f returned; RunLog.steps["1"] is
\* that same ActionLog.
C1_RunStepOneLogWithIntegerStep ==
    (ret.op = "run_step" /\ steps = OneStepRegistry /\ ret.arg = PyStr(<<"1">>)
        /\ ~StepRaised)
    => /\ ret.kind = "ok"
       /\ Len(invoked) = 1
       /\ invoked[1].function = "f"
       /\ Len(ret.value) = 1
       /\ IsActionLog(ret.value[1])
       /\ ret.value[1].step = PyInt(1)
       /\ ret.value[1].substep_number = None
       /\ ret.value[1].arguments = None
       /\ ret.value[1].step_action = "f"
       /\ ret.value[1].action_output = ReturnValue(invoked[1])
       /\ DictHas(action_logs.steps, PyStr(<<"1">>))
       /\ DictGet(action_logs.steps, PyStr(<<"1">>)) = ret.value[1]

\* C2: for a fan-out step with multi_param p and multi_options o1..ok, run_step
\* invokes the function k times in the order of the options and returns k ActionLog
\* records in that order, the i-th with arguments[p] = oi.
C2_FanOutReturnsActionLogs ==
    (RanRegistered /\ steps[str(ret.arg)].is_multi /\ ~StepRaised)
    => LET d == steps[str(ret.arg)]
       IN  /\ ret.kind = "ok"
           /\ Len(invoked) = Len(d.multi_options)
           /\ \A i \in DOMAIN invoked :
                invoked[i].kwargs[d.multi_param] = d.multi_options[i]
           /\ Len(ret.value) = Len(d.multi_options)
           /\ \A i \in DOMAIN ret.value :
                /\ IsActionLog(ret.value[i])
                /\ ret.value[i].arguments[d.multi_param] = d.multi_options[i]

\* C3: if the function invoked by run_step raises, run_step ends with that error,
\* RunLog.steps is what it was before the call, and no progress indication is left
\* active.
C3_RaiseLeavesStepsAndStatus ==
    [][(ret'.op = "run_step" /\ StepRaised') =>
            /\ ret'.kind = "raise"
            /\ ret'.value = "StepError"
            /\ action_logs'.steps = action_logs.steps
            /\ ~status_active']_vars

\* C3 witness: a step that leaves the progress indication to the runner has raised.
C3_Witness ==
    /\ ret.op = "run_step"
    /\ StepRaised
    /\ RanRegistered
    /\ ~steps[str(ret.arg)].is_multi
    /\ ~steps[str(ret.arg)].has_progress

\* C4: run_step with an identifier that is no key of the loaded registry (as text)
\* fails with the lookup error before any step function is invoked and leaves the
\* whole RunLog as it was; whatever failed before, run_step with a key of the
\* registry whose function returns succeeds.
C4_UnknownStepFailsCleanly ==
    /\ [][(ret'.op = "run_step" /\ IsLoaded(steps) /\ str(ret'.arg) \notin DOMAIN steps) =>
            /\ ret'.kind = "raise"
            /\ ret'.value = "KeyError"
            /\ invoked' = <<>>
            /\ action_logs' = action_logs]_vars
    /\ []((ret.op = "run_step" /\ ret.arg \in DOMAIN steps /\ ~StepRaised)
            => ret.kind = "ok")

\* C4 witness: run_step("9") has just failed on a loaded registry.
C4_Witness ==
    /\ ret.op = "run_step"
    /\ IsLoaded(steps)
    /\ ret.arg = PyStr(<<"9">>)
    /\ ret.kind = "raise"

\* C5: every unit of work a run_step completes (a non-fan-out invocation, a fan-out
\* iteration) gets one entry of its own in RunLog.steps, so a successful run_step
\* adds as many entries as it completed units.
C5_EachUnitAddsOneEntry ==
    [][(ret'.op = "run_step" /\ ret'.kind = "ok") =>
            Len(action_logs'.steps) = Len(action_logs.steps) + Len(invoked')]_vars

\* C6: only a successful finalise changes the files on disk (no write by
\* initialise, load_steps or run_step, none when a step function or the dependency
\* resolution raises); completed_at and dependencies appear in the RunLog only in a
\* finalise step; every file holds both, and is named by the hash of the
\* completed_at it holds.
C6_FinaliseOnlyPersistencePoint ==
    /\ [][/\ (files' # files) => (ret'.op = "finalise" /\ ret'.kind = "ok")
          /\ ({"completed_at", "dependencies"} \cap DOMAIN action_logs'
                    # {"completed_at", "dependencies"} \cap DOMAIN action_logs)
                => ret'.op = "finalise"]_vars
    /\ [](\A name \in DOMAIN files :
            /\ {"completed_at", "dependencies"} \subseteq DOMAIN files[name]
            /\ name.hash = Sha256(files[name].completed_at))
    /\ []((constructed /\ finalised = 0) =>
            {"completed_at", "dependencies"} \cap DOMAIN action_logs = {})

\* C6 witness: a file written after step "1" ran is on disk.
C6_Witness ==
    /\ ret.op = "finalise"
    /\ ret.kind = "ok"
    /\ \E name \in DOMAIN files : PyStr(<<"1">>) \in DOMAIN files[name].steps

\* C7: two finalise calls on the same RunLog leave two files: each successful
\* finalise has a file of its own on disk.
C7_EachFinaliseHasItsFile == Cardinality(DOMAIN files) = finalised

\* C8: get_step_title_number never fails on a non-negative step number with a
\* substep that is null or non-negative; without a substep the identifier is the
\* decimal text of the step number, with a positive substep it is the decimal text
\* of the step number, a dot, and the decimal text of the substep.
IsDigit(c) == \E i \in DOMAIN Digits : Digits[i] = c
DigitValue(c) == (CHOOSE i \in DOMAIN Digits : Digits[i] = c) - 1
RECURSIVE NumberRead(_)
NumberRead(text) ==
    IF Len(text) = 0 THEN 0
    ELSE 10 * NumberRead(SubSeq(text, 1, Len(text) - 1)) + DigitValue(text[Len(text)])
\* text is how n is written: digits only, no leading zero, read back as n.
Writes(text, n) ==
    /\ Len(text) > 0
    /\ \A i \in DOMAIN text : IsDigit(text[i])
    /\ Len(text) > 1 => text[1] # "0"
    /\ NumberRead(text) = n

C8_TitleNumberForm ==
    ret.op = "get_step_title_number"
    => /\ ret.kind = "ok"
       /\ IsStr(ret.value)
       /\ title_in[2] = None => Writes(ret.value.str, title_in[1].int)
       /\ (title_in[2] # None /\ title_in[2].int > 0) =>
            \E dot \in DOMAIN ret.value.str :
                /\ ret.value.str[dot] = "."
                /\ Writes(SubSeq(ret.value.str, 1, dot - 1), title_in[1].int)
                /\ Writes(SubSeq(ret.value.str, dot + 1, Len(ret.value.str)),
                          title_in[2].int)

\* C8 witness: a two-digit step number with a two-digit substep.
C8_Witness ==
    /\ ret.op = "get_step_title_number"
    /\ title_in[1].int >= 10
    /\ title_in[2] # None
    /\ title_in[2].int >= 10

\* C9: the clock never going backwards, every ActionLog in RunLog.steps or returned
\* by run_step (the step-zero entry included) has completed_at >= started_at, and
\* the completed_at of the log just built is no earlier than the clock was when the
\* invoked function (or the bootstrap) returned.
C9_CompletedAfterReturn ==
    /\ constructed =>
        \A i \in DOMAIN action_logs.steps :
            action_logs.steps[i].v.completed_at >= action_logs.steps[i].v.started_at
    /\ ret.op = "initialise" =>
        /\ action_logs.steps[1].v.completed_at >= returned_at
        /\ returned_at >= action_logs.steps[1].v.started_at
    /\ (ret.op = "run_step" /\ ret.kind = "ok" /\ RunsOnce(steps, ret.arg)) =>
        /\ ret.value[1].completed_at >= ret.value[1].started_at
        /\ ret.value[1].completed_at >= returned_at
        /\ returned_at >= ret.value[1].started_at

\* C9 witness: the clock moved while the step function ran.
C9_Witness ==
    /\ ret.op = "run_step"
    /\ ret.kind = "ok"
    /\ RunsOnce(steps, ret.arg)
    /\ ret.value[1].started_at < returned_at

\* C10: the bootstrap run twice in succession from a directory with none of the
\* four folders, nothing removed in between: the first run reports all four as
\* folders_created and none as folders_in_existence, the second all four as
\* folders_in_existence and none as folders_created, and the folders that exist are
\* the same after both.
C10_BootstrapTwice ==
    /\ (Len(boot_hist) >= 1 /\ boot_hist[1].before = {}) =>
        /\ boot_hist[1].output.folders_created = BaseFolders
        /\ boot_hist[1].output.folders_in_existence = <<>>
    /\ (Len(boot_hist) = 2 /\ boot_hist[1].before = {}) =>
        /\ boot_hist[2].output.folders_in_existence = BaseFolders
        /\ boot_hist[2].output.folders_created = <<>>
        /\ boot_hist[2].after = boot_hist[1].after

\* C10 witness: two runs in succession, the first from an empty directory.
C10_Witness == Len(boot_hist) = 2 /\ boot_hist[1].before = {}

====
